---- MODULE Spec2Model ----
(***************************************************************************)
(* Model of the Salt "logging" returner (src/_returners/logging.py):       *)
(* module load, option resolution and validation, delivery of a job        *)
(* record through the process-wide 'Salt-Master' logger, and the job-store *)
(* stubs prep_jid / save_load / get_load.                                  *)
(***************************************************************************)
EXTENDS Integers, Sequences, FiniteSets, TLC

\* ------------------------------------------------------------------ bounds
\* number of returner calls made in one behaviour
MaxCalls == 2
\* number of host worker threads that may be inside returner at once
NumWorkers == 2
\* number of ids the host id generator hands out in one behaviour
MaxGen == 2

Workers == 1..NumWorkers

\* ------------------------------------------------------- python values
\* A python value is tagged with its type: t is the type, s the text of a
\* string, n the value of an int (or the length of a list).
IntV(n) == [t |-> "int", s |-> "", n |-> n]
StrV(s) == [t |-> "str", s |-> s, n |-> 0]
ListV(n) == [t |-> "list", s |-> "", n |-> n]
None == [t |-> "none", s |-> "", n |-> 0]

\* python truthiness ("if value:")
truthy(v) ==
    CASE v.t = "int" -> v.n # 0
      [] v.t = "str" -> v.s # ""
      [] v.t = "list" -> v.n # 0
      [] OTHER -> FALSE

\* python len() of a str or a list
len(v) == IF v.t = "str" THEN Len(v.s) ELSE v.n

\* a dict is a function from its keys to values
EmptyDict == [k \in {} |-> None]
dict_get(d, k) == IF k \in DOMAIN d THEN d[k] ELSE None
dict_update(d, e) ==
    [k \in (DOMAIN d) \cup (DOMAIN e) |-> IF k \in DOMAIN e THEN e[k] ELSE d[k]]

\* ------------------------------------------------------- module constants
__virtualname__ == "logging"

\* defaults of _get_options
defaults ==
    [level |-> StrV("INFO"),
     facility |-> StrV("LOG_USER"),
     remote_port |-> IntV(514),
     remote_ip |-> StrV("127.0.0.1"),
     options |-> ListV(0)]

\* attrs of _get_options: the option names looked up in the host config
attrs == {"level", "facility", "tag", "remote_ip", "remote_port", "options"}

\* ------------------------------------------------------------- the inputs
Tag32 == "abcdefghijklmnopqrstuvwxyz012345"
Tag33 == "abcdefghijklmnopqrstuvwxyz0123456"

\* per-call keyword overrides (ret['ret_kwargs'])
Kwargs ==
    { EmptyDict,
      [level |-> StrV("ERROR"), remote_ip |-> StrV("10.0.0.2"), remote_port |-> IntV(1514)],
      [level |-> StrV("LOG_ERR")],
      [facility |-> StrV("LOG_DAEMON"), tag |-> StrV(Tag32)],
      [remote_port |-> StrV("abc")],
      [tag |-> StrV(Tag33)],
      [tag |-> IntV(7)],
      [tag |-> StrV("")],
      [port |-> StrV("x")],
      [level |-> IntV(40)] }

\* a job record as the host passes it to returner: the payload (success,
\* retcode), the alternate configuration name ("" when none was requested)
\* and the keyword overrides
MkRet(ok, rc, cfgname, kw) ==
    [success |-> ok, retcode |-> rc, ret_config |-> cfgname, ret_kwargs |-> kw]

Rets ==
    { MkRet(TRUE, 0, "", kw) : kw \in Kwargs }
    \cup { MkRet(FALSE, 1, "alternative", EmptyDict) }

\* host configuration: the block logging.* and the block alternative.logging.*
HostCfgs ==
    { [block |-> EmptyDict, alt |-> EmptyDict],
      [block |-> [level |-> StrV("DEBUG"), tag |-> StrV("mysalt")],
       alt |-> [level |-> StrV(""), facility |-> StrV("LOG_DAEMON"),
                remote_ip |-> StrV("10.0.0.9")]] }

\* ------------------------------------------------------ option resolution
\* salt.returners._fetch_option: the alternate block first when an alternate
\* configuration was requested and holds a truthy value, else the module's block
_fetch_option(cfg, ret_config, attr) ==
    IF ret_config = ""
    THEN dict_get(cfg.block, attr)
    ELSE IF truthy(dict_get(cfg.alt, attr))
         THEN dict_get(cfg.alt, attr)
         ELSE dict_get(cfg.block, attr)

\* salt.returners.get_returner_options as _get_options calls it: every attr
\* takes its truthy configured value, else its default when it has one, else
\* stays absent; ret_kwargs then override whatever they name
get_returner_options(cfg, ret, attrnames, dflt) ==
    LET found == { a \in attrnames :
                     truthy(_fetch_option(cfg, ret.ret_config, a)) \/ a \in DOMAIN dflt }
        browsed == [a \in found |->
                      IF truthy(_fetch_option(cfg, ret.ret_config, a))
                      THEN _fetch_option(cfg, ret.ret_config, a)
                      ELSE dflt[a]]
    IN dict_update(browsed, ret.ret_kwargs)

_get_options(cfg, ret) == get_returner_options(cfg, ret, attrs, defaults)

\* ------------------------------------------------------------- validation
\* mutant: the tag limit compared with >= instead of >
_verify_options_ge(options) ==
    IF "port" \in DOMAIN options /\ options["port"].t # "int"
    THEN FALSE
    ELSE IF "tag" \in DOMAIN options /\ options["tag"].t # "str"
    THEN FALSE
    ELSE IF "tag" \in DOMAIN options /\ len(options["tag"]) >= 32
    THEN FALSE
    ELSE TRUE

_verify_options(options) ==
    IF "port" \in DOMAIN options /\ options["port"].t # "int"
    THEN FALSE
    ELSE IF "tag" \in DOMAIN options /\ options["tag"].t # "str"
    THEN FALSE
    ELSE IF "tag" \in DOMAIN options /\ len(options["tag"]) > 32
    THEN FALSE
    ELSE TRUE

\* --------------------------------------------------- the logging library
json_bool(b) == IF b THEN "true" ELSE "false"
json_int(n) == CASE n = 0 -> "0" [] n = 1 -> "1" [] n = 7 -> "7" [] n = 40 -> "40"
                 [] n = 514 -> "514" [] n = 1514 -> "1514" [] OTHER -> "?"

\* logging._nameToLevel
LevelNames == {"CRITICAL", "ERROR", "WARNING", "INFO", "DEBUG"}
_nameToLevel(name) ==
    CASE name = "CRITICAL" -> 50
      [] name = "ERROR" -> 40
      [] name = "WARNING" -> 30
      [] name = "INFO" -> 20
      [] name = "DEBUG" -> 10
      [] OTHER -> 0

\* logging.getLevelName: a known name gives its number, anything else the
\* text "Level <name>"
getLevelName(v) ==
    IF v.t = "str" /\ v.s \in LevelNames
    THEN IntV(_nameToLevel(v.s))
    ELSE IF v.t = "int" /\ (\E nm \in LevelNames : _nameToLevel(nm) = v.n)
    THEN StrV(CHOOSE nm \in LevelNames : _nameToLevel(nm) = v.n)
    ELSE StrV("Level " \o (IF v.t = "str" THEN v.s ELSE json_int(v.n)))

\* Logger.setLevel accepts an int, or the name of a known level
setLevelAccepts(lv) == lv.t = "int" \/ (lv.t = "str" /\ lv.s \in LevelNames)

\* the facility of a SysLogHandler built without a facility argument
HandlerDefaultFacility == "LOG_USER"

\* salt.utils.json.dumps of the job record: every key with its JSON text
json_value(v) ==
    CASE v.t = "int" -> json_int(v.n)
      [] v.t = "str" -> "\"" \o v.s \o "\""
      [] v.t = "list" -> "[]"
      [] OTHER -> "null"
dumps(ret) ==
    [success |-> json_bool(ret.success),
     retcode |-> json_int(ret.retcode),
     ret_config |-> "\"" \o ret.ret_config \o "\"",
     ret_kwargs |-> [k \in DOMAIN ret.ret_kwargs |-> json_value(ret.ret_kwargs[k])]]

\* ---------------------------------------------------------- the stubs
\* salt.utils.jid.gen_jid: the k-th id the host generator hands out (a
\* timestamp string; n carries its serial number)
gen_jid(k) == [t |-> "str", s |-> "20261102", n |-> k]

\* mutant: passed_jid tested for truth instead of for None
prep_jid_truthy(nocache, passed_jid, k) ==
    IF truthy(passed_jid)
    THEN [jid |-> passed_jid, gen |-> FALSE]
    ELSE [jid |-> gen_jid(k), gen |-> TRUE]

\* prep_jid: the id it returns, and whether it called the host generator
prep_jid(nocache, passed_jid, k) ==
    IF passed_jid # None
    THEN [jid |-> passed_jid, gen |-> FALSE]
    ELSE [jid |-> gen_jid(k), gen |-> TRUE]

\* inputs of the stubs
PassedJids == {None, StrV("abc123"), StrV(""), IntV(0)}
Jids == {StrV("abc123"), StrV("20261102")}
Loads == {EmptyDict, [fun |-> StrV("test.ping")]}

\* -------------------------------------------------------------- the state
VARIABLES
    loadState,      \* "start", "imported", "loaded" or "failed": the module load
    HAS_LOGGING,    \* the module flag set by the guarded import
    virtualResult,  \* what __virtual__ returned to the loader
    hostCfg,        \* the host configuration (__opts__ / config.option)
    loggerLevel,    \* threshold of the process-wide logger 'Salt-Master'
    handlers,       \* handlers attached to the logger 'Salt-Master', in order
    pc,             \* where each worker is inside returner
    cur,            \* the call each worker is running
    calls,          \* every returner call so far: its input, locals and outcome
    sent,           \* the datagrams put on the wire, in order
    genCount,       \* ids handed out by the host id generator
    lastPrep,       \* the last prep_jid call and its result
    saved,          \* what the host has passed to save_load
    lastSave,       \* the last save_load call and its result
    lastGet         \* the last get_load call and its result

vars == <<loadState, HAS_LOGGING, virtualResult, hostCfg, loggerLevel, handlers,
          pc, cur, calls, sent, genCount, lastPrep, saved, lastSave, lastGet>>
loadVars == <<loadState, HAS_LOGGING, virtualResult>>
loggerVars == <<loggerLevel, handlers>>
callVars == <<pc, cur, calls, sent>>
stubVars == <<genCount, lastPrep, saved, lastSave, lastGet>>

NotCalled == [called |-> FALSE]

Init ==
    /\ loadState = "start"
    /\ HAS_LOGGING = FALSE
    /\ virtualResult = NotCalled
    /\ hostCfg \in HostCfgs
    /\ loggerLevel = 0
    /\ handlers = <<>>
    /\ pc = [w \in Workers |-> "idle"]
    /\ cur = [w \in Workers |-> 0]
    /\ calls = <<>>
    /\ sent = <<>>
    /\ genCount = 0
    /\ lastPrep = NotCalled
    /\ saved = {}
    /\ lastSave = NotCalled
    /\ lastGet = NotCalled

\* ---------------------------------------------------------- module load
\* the guarded import at the top of the module: HAS_LOGGING records whether
\* the logging library could be imported
ImportLogging ==
    /\ loadState = "start"
    /\ \E ok \in BOOLEAN : HAS_LOGGING' = ok
    /\ loadState' = "imported"
    /\ UNCHANGED <<virtualResult, hostCfg, loggerVars, callVars, stubVars>>

\* the rest of the module body: log = logging.getLogger(__name__) uses the
\* name logging, which is unbound (NameError) when the import failed
ModuleBody ==
    /\ loadState = "imported"
    /\ loadState' = IF HAS_LOGGING THEN "loaded" ELSE "failed"
    /\ UNCHANGED <<HAS_LOGGING, virtualResult, hostCfg, loggerVars, callVars, stubVars>>

__virtual__(has_logging) ==
    IF ~has_logging
    THEN [ok |-> FALSE, name |-> "",
          reason |-> "Could not import logging returner; logging is not installed."]
    ELSE [ok |-> TRUE, name |-> __virtualname__, reason |-> ""]

\* the loader calls __virtual__ of a module whose body ran to its end
Virtual ==
    /\ loadState = "loaded"
    /\ ~virtualResult.called
    /\ virtualResult' = [called |-> TRUE, ret |-> __virtual__(HAS_LOGGING)]
    /\ UNCHANGED <<loadState, HAS_LOGGING, hostCfg, loggerVars, callVars, stubVars>>

\* the host calls the module's functions once the loader accepted it
Usable == loadState = "loaded" /\ virtualResult.called /\ virtualResult.ret.ok

\* ------------------------------------------------------------- returner
\* a SysLogHandler as returner builds it: the address given, the default
\* facility; id tells the handler objects apart, usable is whether its
\* socket can send to the address
MkHandler(id, ip, port, usable) ==
    [id |-> id, ip |-> ip, port |-> port,
     facility |-> HandlerDefaultFacility, usable |-> usable]

\* the datagram a handler puts on the wire for one record
Datagram(h, c, levelno, body) ==
    [by |-> c, via |-> h.id, ip |-> h.ip, port |-> h.port,
     facility |-> h.facility, levelno |-> levelno, body |-> body]

\* Logger.callHandlers: every attached handler emits the record, in order
RECURSIVE callHandlers(_, _, _, _)
callHandlers(hs, c, levelno, body) ==
    IF hs = <<>>
    THEN <<>>
    ELSE (IF Head(hs).usable
          THEN <<Datagram(Head(hs), c, levelno, body)>>
          ELSE <<>>) \o callHandlers(Tail(hs), c, levelno, body)

\* returner up to and including logging.getLevelName: resolve the options,
\* validate them, return at once when validation fails
Call(w, ret) ==
    /\ Usable
    /\ pc[w] = "idle"
    /\ Len(calls) < MaxCalls
    /\ LET _options == _get_options(hostCfg, ret)
           ok == _verify_options(_options)
       IN /\ calls' = Append(calls,
                 [ret |-> ret,
                  options |-> _options,
                  verified |-> ok,
                  level |-> IF ok THEN getLevelName(dict_get(_options, "level")) ELSE None,
                  status |-> IF ok THEN "running" ELSE "skipped",
                  attached |-> FALSE])
          /\ pc' = [pc EXCEPT ![w] = IF ok THEN "setLevel" ELSE "idle"]
    /\ cur' = [cur EXCEPT ![w] = Len(calls) + 1]
    /\ UNCHANGED <<loadVars, hostCfg, loggerVars, sent, stubVars>>

\* my_logger = logging.getLogger('Salt-Master'); my_logger.setLevel(level):
\* ValueError for a level that is neither a number nor a known name
SetLevel(w) ==
    /\ pc[w] = "setLevel"
    /\ LET c == cur[w]
           lv == calls[c].level
       IN IF setLevelAccepts(lv)
          THEN /\ loggerLevel' = (IF lv.t = "int" THEN lv.n ELSE _nameToLevel(lv.s))
               /\ pc' = [pc EXCEPT ![w] = "addHandler"]
               /\ UNCHANGED calls
          ELSE /\ calls' = [calls EXCEPT ![c].status = "raised"]
               /\ pc' = [pc EXCEPT ![w] = "idle"]
               /\ UNCHANGED loggerLevel
    /\ UNCHANGED <<loadVars, hostCfg, handlers, cur, sent, stubVars>>

\* handler = SysLogHandler(address=(remote_ip, remote_port));
\* my_logger.addHandler(handler). With a port that is no integer the
\* constructor either raises (the address is resolved when the socket is
\* made) or builds a handler whose sends fail and are swallowed by
\* Handler.handleError, depending on the logging library
AddHandler(w) ==
    /\ pc[w] = "addHandler"
    /\ LET c == cur[w]
           remote_ip == dict_get(calls[c].options, "remote_ip")
           remote_port == dict_get(calls[c].options, "remote_port")
       IN \E ctorRaises \in (IF remote_port.t = "int" THEN {FALSE} ELSE BOOLEAN) :
            IF ctorRaises
            THEN /\ calls' = [calls EXCEPT ![c].status = "raised"]
                 /\ pc' = [pc EXCEPT ![w] = "idle"]
                 /\ UNCHANGED handlers
            ELSE /\ handlers' = Append(handlers,
                        MkHandler(c, remote_ip, remote_port, remote_port.t = "int"))
                 /\ calls' = [calls EXCEPT ![c].attached = TRUE]
                 /\ pc' = [pc EXCEPT ![w] = "log"]
    /\ UNCHANGED <<loadVars, hostCfg, loggerLevel, cur, sent, stubVars>>

\* my_logger.log(level, salt.utils.json.dumps(ret)): TypeError for a level
\* that is no integer; a record below the logger's threshold is dropped;
\* otherwise every handler attached to the logger emits it
Log(w) ==
    /\ pc[w] = "log"
    /\ LET c == cur[w]
           lv == calls[c].level
       IN IF lv.t # "int"
          THEN /\ calls' = [calls EXCEPT ![c].status = "raised"]
               /\ UNCHANGED sent
          ELSE /\ calls' = [calls EXCEPT ![c].status = "done"]
               /\ sent' = IF lv.n >= loggerLevel
                          THEN sent \o callHandlers(handlers, c, lv.n, dumps(calls[c].ret))
                          ELSE sent
    /\ pc' = [pc EXCEPT ![w] = "idle"]
    /\ UNCHANGED <<loadVars, hostCfg, loggerVars, cur, stubVars>>

\* ------------------------------------------------------------ the stubs
PrepJid(nocache, passed_jid) ==
    /\ Usable
    /\ passed_jid = None => genCount < MaxGen
    /\ LET r == prep_jid(nocache, passed_jid, genCount + 1)
       IN /\ lastPrep' = [called |-> TRUE, nocache |-> nocache,
                          passed_jid |-> passed_jid, result |-> r.jid,
                          genBefore |-> genCount,
                          genAfter |-> IF r.gen THEN genCount + 1 ELSE genCount]
          /\ genCount' = IF r.gen THEN genCount + 1 ELSE genCount
    /\ UNCHANGED <<loadVars, hostCfg, loggerVars, callVars, saved, lastSave, lastGet>>

\* save_load has a docstring for a body: it returns None and stores nothing
\* (saved only records what the host asked for)
save_load(jid, load, minions) == None

SaveLoad(jid, load, minions) ==
    /\ Usable
    /\ lastSave' = [called |-> TRUE, jid |-> jid, result |-> save_load(jid, load, minions)]
    /\ saved' = saved \cup {<<jid, load>>}
    /\ UNCHANGED <<loadVars, hostCfg, loggerVars, callVars, genCount, lastPrep, lastGet>>

\* mutant: get_load reads back what save_load was given
get_load_stored(jid) ==
    IF \E p \in saved : p[1] = jid
    THEN (CHOOSE p \in saved : p[1] = jid)[2]
    ELSE EmptyDict

get_load(jid) == EmptyDict

GetLoad(jid) ==
    /\ Usable
    /\ lastGet' = [called |-> TRUE, jid |-> jid, result |-> get_load(jid)]
    /\ UNCHANGED <<loadVars, hostCfg, loggerVars, callVars, genCount, lastPrep, saved, lastSave>>

\* ------------------------------------------------------ specifications
Load == ImportLogging \/ ModuleBody \/ Virtual

\* workers of the host run returner concurrently, a step at a time
Next ==
    \/ Load
    \/ \E w \in Workers : \/ \E ret \in Rets : Call(w, ret)
                          \/ SetLevel(w)
                          \/ AddHandler(w)
                          \/ Log(w)

Spec == Init /\ [][Next]_vars

\* one call at a time: a call starts only when no other call is running
Quiet == \A w \in Workers : pc[w] = "idle"
SeqCall(w, ret) == Quiet /\ Call(w, ret)

NextSeq ==
    \/ Load
    \/ \E w \in Workers : \/ \E ret \in Rets : SeqCall(w, ret)
                          \/ SetLevel(w)
                          \/ AddHandler(w)
                          \/ Log(w)

SpecSeq == Init /\ [][NextSeq]_vars

\* the job-store stubs, called in any order
NextStubs ==
    \/ Load
    \/ \E nocache \in BOOLEAN, passed_jid \in PassedJids : PrepJid(nocache, passed_jid)
    \/ \E jid \in Jids, load \in Loads, minions \in {None, ListV(1)} :
           SaveLoad(jid, load, minions)
    \/ \E jid \in Jids : GetLoad(jid)

SpecStubs == Init /\ [][NextStubs]_vars

\* ------------------------------------------------------------ the claims
CallIds == 1..Len(calls)
SentBy(c) == SelectSeq(sent, LAMBDA d : d.by = c)
HasKey(c, k) == k \in DOMAIN calls[c].options
Opt(c, k) == dict_get(calls[c].options, k)
\* the options of call c are of the documented types and its level is known
WellFormed(c) ==
    /\ Opt(c, "remote_port").t = "int"
    /\ Opt(c, "remote_ip").t = "str"
    /\ Opt(c, "level").t = "str" /\ Opt(c, "level").s \in LevelNames
\* d went to the destination call c resolved, carrying c's record
OwnDatagram(d, c) ==
    /\ d.by = c
    /\ d.ip = Opt(c, "remote_ip") /\ d.port = Opt(c, "remote_port")
    /\ d.body = dumps(calls[c].ret)

\* C1: a call whose remote_port is present and is no integer fails
\* validation: it returns without attaching a handler, without sending and
\* without raising.
C1_NonIntegerPortRejected ==
    \A c \in CallIds :
        (HasKey(c, "remote_port") /\ Opt(c, "remote_port").t # "int")
            => /\ ~calls[c].verified
               /\ ~calls[c].attached
               /\ SentBy(c) = <<>>
               /\ calls[c].status # "raised"

\* C2: a call whose options hold a tag that is no string, or a string longer
\* than 32 characters, fails validation and returns without sending and
\* without raising; a string tag of 0 to 32 characters does not make
\* validation fail.
C2_TagValidated ==
    \A c \in CallIds :
        /\ (HasKey(c, "tag") /\ (Opt(c, "tag").t # "str" \/ Len(Opt(c, "tag").s) > 32))
              => /\ ~calls[c].verified
                 /\ calls[c].status = "skipped"
                 /\ ~calls[c].attached
                 /\ SentBy(c) = <<>>
        /\ (/\ HasKey(c, "tag") /\ Opt(c, "tag").t = "str" /\ Len(Opt(c, "tag").s) <= 32
            /\ ~(HasKey(c, "port") /\ Opt(c, "port").t # "int"))
              => calls[c].verified

\* C2 witness: a call with a 33-character tag was skipped and a call with a
\* 32-character tag passed validation and was delivered
C2_Witness ==
    /\ \E c \in CallIds : /\ HasKey(c, "tag") /\ Opt(c, "tag").t = "str"
                          /\ Len(Opt(c, "tag").s) = 33
                          /\ calls[c].status = "skipped"
    /\ \E c \in CallIds : /\ HasKey(c, "tag") /\ Opt(c, "tag").t = "str"
                          /\ Len(Opt(c, "tag").s) = 32
                          /\ calls[c].status = "done" /\ SentBy(c) # <<>>

\* C3: every call that passed validation (here: with options of the
\* documented types, and run to its end) has put exactly one datagram on the
\* wire, addressed to its resolved destination and carrying its record.
C3_ExactlyOneDatagram ==
    \A c \in CallIds :
        (calls[c].verified /\ WellFormed(c) /\ calls[c].status = "done")
            => /\ Len(SentBy(c)) = 1
               /\ OwnDatagram(SentBy(c)[1], c)

\* C4: under any interleaving of concurrent calls, every call that passed
\* validation and ran to its end delivered its own record to its own
\* destination at its own level.
C4_OwnRecordDelivered ==
    \A c \in CallIds :
        (calls[c].verified /\ WellFormed(c) /\ calls[c].status = "done")
            => \E i \in 1..Len(sent) :
                  /\ OwnDatagram(sent[i], c)
                  /\ sent[i].levelno = _nameToLevel(Opt(c, "level").s)

\* C5: every datagram is tagged with the facility and the level its call
\* resolved.
C5_FacilityAndLevel ==
    \A i \in 1..Len(sent) :
        LET c == sent[i].by
        IN /\ sent[i].facility = Opt(c, "facility").s
           /\ sent[i].levelno = calls[c].level.n

\* C6: when the logging library cannot be imported the module still loads,
\* and __virtual__ reports the module unusable with a reason; when it can,
\* __virtual__ returns 'logging'.
C6_LoadSurvivesMissingLogging ==
    /\ (loadState \in {"loaded", "failed"} /\ ~HAS_LOGGING) => loadState = "loaded"
    /\ virtualResult.called =>
          IF HAS_LOGGING
          THEN virtualResult.ret.ok /\ virtualResult.ret.name = "logging"
          ELSE ~virtualResult.ret.ok /\ virtualResult.ret.reason # ""

\* C7: prep_jid returns a passed_jid that is not None unchanged, whatever it
\* is and whatever nocache is, without calling the host id generator; for
\* None it returns the id the host generator produced.
C7_PrepJidPassthrough ==
    lastPrep.called =>
        IF lastPrep.passed_jid # None
        THEN /\ lastPrep.result = lastPrep.passed_jid
             /\ lastPrep.genAfter = lastPrep.genBefore
             /\ genCount = lastPrep.genBefore
        ELSE /\ lastPrep.genAfter = lastPrep.genBefore + 1
             /\ genCount = lastPrep.genAfter
             /\ lastPrep.result = gen_jid(lastPrep.genAfter)

\* C7 witness: prep_jid was given the empty string (false, yet not None) and
\* returned it
C7_Witness ==
    /\ lastPrep.called
    /\ lastPrep.passed_jid = StrV("")
    /\ lastPrep.result = StrV("")

\* C8: with no keyword overrides and an empty host configuration the options
\* are the documented defaults (level INFO, facility LOG_USER, remote_ip
\* 127.0.0.1, remote_port 514, no tag); the call passes validation and its
\* record goes to 127.0.0.1:514.
C8_Defaults ==
    \A c \in CallIds :
        (/\ hostCfg.block = EmptyDict /\ hostCfg.alt = EmptyDict
         /\ calls[c].ret.ret_kwargs = EmptyDict)
            => /\ Opt(c, "level") = StrV("INFO")
               /\ Opt(c, "facility") = StrV("LOG_USER")
               /\ Opt(c, "remote_ip") = StrV("127.0.0.1")
               /\ Opt(c, "remote_port") = IntV(514)
               /\ ~HasKey(c, "tag")
               /\ DOMAIN calls[c].options \subseteq
                     {"level", "facility", "remote_ip", "remote_port", "options"}
               /\ calls[c].verified
               /\ calls[c].status \in {"running", "done"}
               /\ calls[c].status = "done" =>
                     \E i \in 1..Len(sent) :
                        /\ sent[i].by = c
                        /\ sent[i].ip = StrV("127.0.0.1")
                        /\ sent[i].port = IntV(514)
                        /\ sent[i].body = dumps(calls[c].ret)

\* C8, the part that no interleaving touches: with no keyword overrides and
\* an empty host configuration the options resolved are the documented
\* defaults and pass validation.
C8_DefaultsResolved ==
    \A c \in CallIds :
        (/\ hostCfg.block = EmptyDict /\ hostCfg.alt = EmptyDict
         /\ calls[c].ret.ret_kwargs = EmptyDict)
            => /\ Opt(c, "level") = StrV("INFO")
               /\ Opt(c, "facility") = StrV("LOG_USER")
               /\ Opt(c, "remote_ip") = StrV("127.0.0.1")
               /\ Opt(c, "remote_port") = IntV(514)
               /\ ~HasKey(c, "tag")
               /\ calls[c].verified

C10_HandlerPerValidatedCall ==
    Quiet => Len(handlers) = Cardinality({c \in CallIds : calls[c].verified})

====
